---- MODULE Spec2Model ----
(***************************************************************************)
(* Client-side session / route guard / view fetch protocol of the Okta    *)
(* example application, together with the role editor (UserRoles).        *)
(*                                                                         *)
(* One action is one task of the browser's event loop: a React state       *)
(* change together with the render and the effects it causes.  Anything    *)
(* that is awaited (getAccessToken, fetch) settles in a later action.      *)
(***************************************************************************)
EXTENDS Integers, FiniteSets, Sequences, TLC

\* ---------------------------------------------------------------- bounds
\* fetches, and role updates, that are outstanding at the same time
MaxFetch == 2
MaxPut == 2

\* ------------------------------------------------------------ value sets
\* the paths of <Routes> in App, those wrapped in <SecureRoute>, and the
\* location at which the host of AwsDashboard (not an element of <Routes>,
\* not wrapped in <SecureRoute>) renders it
Routes == {"/", "/login/callback", "/protected", "/profile", "/users"}
Gated == {"/protected", "/profile", "/users"}
AwsLocation == "/aws"
Locations == Routes \cup {AwsLocation}
Views == {"Protected", "UserProfile", "UsersList", "UsersListV1", "AwsDashboard"}
Users == {1, 2}
availableRoles == {"ROLE_BASIC_USER", "ROLE_ADMIN"}
\* what getAccessToken can hand back: a token, or undefined when none is stored
Tokens == {"t1"}
TokenResults == Tokens \cup {"undefined"}
\* non-success HTTP statuses and response bodies the backend answers with
Statuses == {"403", "500"}
Bodies == {"denied"}
PutStatuses == {"403"}
\* null error
Null == <<>>
\* messages of errors that are thrown by the SDK or by fetch itself
TokenErrorMessage == <<"token error">>
TransportErrorMessage == <<"Failed to fetch">>

\* UserMenu: useState(null) twice; nothing is pending, nothing was logged
InitMenu ==
  [userInfo |-> Null, anchorEl |-> FALSE, getUsers |-> 0, signOuts |-> 0,
   console |-> {}]

\* AccountCostCard: no card has been rendered
NoCard ==
  [cost |-> [m |-> 0, e |-> 0], budgetLimit |-> [m |-> 0, e |-> 0],
   percentageOfTotal |-> [m |-> 0, e |-> 0], isOverBudget |-> FALSE,
   value |-> [m |-> 0, e |-> 0], barColor |-> "-", costColor |-> "-"]

\* payloads of GET /api/users: for every user the name of roles[0],
\* "none" when the user's role list is empty
UsersPayloads ==
  {p \in [Users -> availableRoles \cup {"none"}] : p[2] = "ROLE_BASIC_USER"}
\* users = []: no user is in the list
NoUsers == [u \in Users |-> "absent"]
OpaquePayloads == {<<"p1">>, <<"p2">>}

Payloads(v) == IF v = "UsersList" THEN UsersPayloads ELSE OpaquePayloads

VARIABLES
  authState,         \* "Unknown" (authState null), "Unauth", "Auth"
  everAuth,          \* the session has been authenticated since the page loaded
  usersListVersion,  \* which UsersList component the build routes /users to
  target,            \* the location last asked for
  route,             \* the current location
  guard,             \* decision of the last SecureRoute evaluation
  views,             \* hook state of every view component
  fetches,           \* fetch operations that have not settled, oldest first
  editors,           \* hook state of the UserRoles instance of every user row
  puts,              \* role updates that have not settled, oldest first
  background,        \* handlers of unmounted views may still send requests
  ev,                \* the step that was taken last
  menu,              \* hook state and pending calls of the UserMenu component
  server,            \* requests the backend has received, oldest first
  card               \* what AccountCostCard rendered last

vars == <<authState, everAuth, usersListVersion, target, route, guard, views,
          fetches, editors, puts, background, ev, menu, server, card>>

\* ------------------------------------------------------------ route guard
SecureRoute_AlwaysChildren(auth) == "children"

SecureRoute_NoPlaceholder(auth) ==
  IF auth # "Auth" THEN "redirect" ELSE "children"

SecureRoute_Inverted(auth) ==
  IF auth = "Unknown" THEN "placeholder"
  ELSE IF auth = "Auth" THEN "redirect"
  ELSE "children"

SecureRoute(auth) ==
  IF auth = "Unknown" THEN "placeholder"
  ELSE IF auth # "Auth" THEN "redirect"
  ELSE "children"

\* <Routes>: the element of a path
ViewOf(path) ==
  CASE path = "/protected" -> "Protected"
    [] path = "/profile" -> "UserProfile"
    [] path = "/users" ->
         IF usersListVersion = "mui" THEN "UsersList" ELSE "UsersListV1"
    [] path = AwsLocation -> "AwsDashboard"
    [] OTHER -> "none"

\* a guard that looks at the location as well: it lets /profile through
Decision_ByLocation(auth, loc) ==
  IF loc = "/profile" THEN "children"
  ELSE IF loc \in Gated THEN SecureRoute(auth) ELSE "none"

Decision(auth, loc) == IF loc \in Gated THEN SecureRoute(auth) ELSE "none"

\* <Navigate to="/" replace />
RouteAfter(auth, loc) == IF Decision(auth, loc) = "redirect" THEN "/" ELSE loc

RoutedView(auth, loc) ==
  IF Decision(auth, loc) \in {"children", "none"} THEN ViewOf(loc) ELSE "none"

\* ------------------------------------------------------------ view state
EmptyData(v) ==
  CASE v = "UsersList" -> NoUsers
    [] v = "AwsDashboard" -> <<"emptyAwsData">>
    [] OTHER -> Null

HasLoadingFlag(v) == v \in {"UsersList", "UsersListV1", "AwsDashboard"}

\* useState initial values
InitView(v) ==
  [mounted |-> TRUE, loading |-> HasLoadingFlag(v), error |-> Null,
   data |-> EmptyData(v)]

Unmounted(v) ==
  [mounted |-> FALSE, loading |-> FALSE, error |-> Null, data |-> EmptyData(v)]

\* --- UsersList (MUI version)
fetchUsers_start(s) == [s EXCEPT !.loading = TRUE, !.error = Null]

fetchUsers_ok(s, d) == [s EXCEPT !.data = d, !.loading = FALSE]

fetchUsers_catch(s, m) == [s EXCEPT !.error = m, !.loading = FALSE]

fetchUsers_message(status, body) == <<"Failed to fetch users: ", status>>

\* --- UsersList (first version)
fetchUsersV1_ok(s, d) ==
  [s EXCEPT !.data = d, !.error = Null, !.loading = FALSE]

fetchUsersV1_catch(s, m) ==
  [s EXCEPT !.error = m, !.data = Null, !.loading = FALSE]

fetchUsersV1_message(status, body) ==
  IF status = "403"
  THEN <<"You do not have permission to view the users list.">>
  ELSE <<"Error fetching users: ", status>>

\* --- AwsDashboard
fetchAwsData_start(s) == [s EXCEPT !.loading = TRUE, !.error = Null]

fetchAwsData_ok(s, d) == [s EXCEPT !.data = d, !.loading = FALSE]

\* a catch block with no finally after it
fetchAwsData_catch_NoFinally(s, m) == [s EXCEPT !.error = m]

fetchAwsData_catch(s, m) == [s EXCEPT !.error = m, !.loading = FALSE]

fetchAwsData_message(status, body) == <<"Failed to fetch AWS data: ", status>>

\* --- Protected
fetchProtectedData_ok(s, d) == [s EXCEPT !.data = d, !.error = Null]

fetchProtectedData_catch(s, m) == [s EXCEPT !.error = m, !.data = Null]

fetchProtectedData_message(status, body) ==
  <<"Backend error: ", status, " - ", body>>

\* --- UserProfile
fetchUserData_ok(s, d) == [s EXCEPT !.data = d, !.error = Null]

fetchUserData_catch(s, m) == [s EXCEPT !.error = m, !.data = Null]

fetchUserData_message(status, body) ==
  <<"Backend error: ", status, " - ", body>>

\* --- the code of view v
OnStart(v, s) ==
  CASE v = "UsersList" -> fetchUsers_start(s)
    [] v = "AwsDashboard" -> fetchAwsData_start(s)
    [] OTHER -> s

OnSuccess(v, s, d) ==
  CASE v = "UsersList" -> fetchUsers_ok(s, d)
    [] v = "UsersListV1" -> fetchUsersV1_ok(s, d)
    [] v = "AwsDashboard" -> fetchAwsData_ok(s, d)
    [] v = "Protected" -> fetchProtectedData_ok(s, d)
    [] OTHER -> fetchUserData_ok(s, d)

OnFailure(v, s, m) ==
  CASE v = "UsersList" -> fetchUsers_catch(s, m)
    [] v = "UsersListV1" -> fetchUsersV1_catch(s, m)
    [] v = "AwsDashboard" -> fetchAwsData_catch(s, m)
    [] v = "Protected" -> fetchProtectedData_catch(s, m)
    [] OTHER -> fetchUserData_catch(s, m)

HttpMessage(v, status, body) ==
  CASE v = "UsersList" -> fetchUsers_message(status, body)
    [] v = "UsersListV1" -> fetchUsersV1_message(status, body)
    [] v = "AwsDashboard" -> fetchAwsData_message(status, body)
    [] v = "Protected" -> fetchProtectedData_message(status, body)
    [] OTHER -> fetchUserData_message(status, body)

\* the effect of v lists authState itself among its dependencies (it re-runs
\* for every new authState object); the others list authState?.isAuthenticated
AuthObjectDep(v) == v \in {"Protected", "UserProfile", "UsersListV1"}

\* what the view shows
Render(v, s, auth) ==
  IF ~s.mounted THEN {}
  ELSE CASE v = "UsersList" ->
              IF auth = "Unknown" THEN {"placeholder"}
              ELSE IF auth # "Auth" THEN {"loginPrompt"}
              ELSE (IF s.loading THEN {"loading"} ELSE {})
                   \cup (IF s.error # Null THEN {"error"} ELSE {})
                   \cup (IF ~s.loading /\ s.error = Null THEN {"data"} ELSE {})
         [] v = "UsersListV1" ->
              IF auth = "Unknown" THEN {"placeholder"}
              ELSE IF auth # "Auth" THEN {"loginPrompt"}
              ELSE IF s.loading THEN {"loading"}
              ELSE IF s.error # Null THEN {"error"}
              ELSE {"data"}
         [] v = "AwsDashboard" ->
              IF auth # "Auth" THEN {"loginPrompt"}
              ELSE IF s.loading THEN {"loading"}
              ELSE IF s.error # Null THEN {"error"}
              ELSE {"data"}
         [] OTHER ->
              IF auth = "Auth"
              THEN (IF s.data # Null THEN {"data"} ELSE {})
                   \cup (IF s.error # Null THEN {"error"} ELSE {})
              ELSE {"loginPrompt"}

\* ------------------------------------------------------------ role editor
\* user.roles[0]?.name || 'ROLE_BASIC_USER'
InitialRole(first) == IF first \in availableRoles THEN first ELSE "ROLE_BASIC_USER"

InitEditor(first) ==
  [selectedRole |-> InitialRole(first), error |-> Null, isLoading |-> FALSE]

\* the table row of user u is rendered, and with it the user's UserRoles
RowShown(vw, auth, u) ==
  /\ vw["UsersList"].mounted
  /\ auth = "Auth"
  /\ ~vw["UsersList"].loading
  /\ vw["UsersList"].error = Null
  /\ vw["UsersList"].data[u] # "absent"

\* A UserRoles instance lives as long as its row is rendered: when the row goes
\* away the instance and its state are gone, when the row comes back a new
\* instance is mounted.  ed: the editors after the writes of this step.
NoEditor == InitEditor("none")

EditorsAfter(ed, vw2, auth2) ==
  [u \in Users |->
     IF ~RowShown(vw2, auth2, u) THEN NoEditor
     ELSE IF ~RowShown(views, authState, u)
          THEN InitEditor(vw2["UsersList"].data[u])
          ELSE ed[u]]

\* The handlers of an instance that is gone write to nothing: of its update only
\* the request and the callback remain.
OrphanPut(p) ==
  [user |-> 0, role |-> "none", prev |-> "none", first |-> "none",
   stage |-> p.stage, orphan |-> TRUE]

\* (orphans do not interact: they are kept in front, in a fixed order)
PutsAfter(ps, vw2, auth2) ==
  LET mark == [i \in 1..Len(ps) |->
                 IF ps[i].orphan \/ ~RowShown(vw2, auth2, ps[i].user)
                 THEN OrphanPut(ps[i])
                 ELSE ps[i]]
  IN IF ~vw2["UsersList"].mounted THEN <<>>
     ELSE SelectSeq(mark, LAMBDA p : p.orphan /\ p.stage = "token")
          \o SelectSeq(mark, LAMBDA p : p.orphan /\ p.stage = "net")
          \o SelectSeq(mark, LAMBDA p : ~p.orphan)

\* an update that does not set the flag that disables the selector
updateRole_start_NoFlag(e) == [e EXCEPT !.error = Null]

updateRole_start(e) == [e EXCEPT !.isLoading = TRUE, !.error = Null]

updateRole_ok(e) == [e EXCEPT !.isLoading = FALSE]

\* first: user.roles[0]?.name of the user prop the handler closed over
updateRole_catch(e, m, first) ==
  [e EXCEPT !.error = m, !.selectedRole = InitialRole(first),
            !.isLoading = FALSE]

updateRole_message(status, body) ==
  <<"Failed to update role: ", status, " - ", body>>

\* ------------------------------------------------------------ events
NoEvent ==
  [type |-> "init", view |-> "none", user |-> 0, role |-> "none",
   prev |-> "none", msg |-> Null, orphan |-> FALSE, sent |-> FALSE,
   token |-> "-", data |-> Null, callbacks |-> 0, editor |-> NoEditor,
   older |-> 0, stale |-> FALSE, changed |-> FALSE, status |-> "-",
   body |-> "-", header |-> <<>>]

Event(t, v, o) == [NoEvent EXCEPT !.type = t, !.view = v, !.orphan = o]

RemoveAt(s, i) == SubSeq(s, 1, i - 1) \o SubSeq(s, i + 1, Len(s))

\* ------------------------------------------------------------ rendering
\* if (!authState?.isAuthenticated) return;   /   if (authState?.isAuthenticated) {
FetchGuard_Missing(v, auth) == TRUE

FetchGuard(v, auth) == auth = "Auth"

MountedAfter(v, auth2, loc) == v = RoutedView(auth2, loc)

\* useEffect: on mount and when a dependency changed
EffectRuns(v, auth2, loc, objChanged, flagChanged) ==
  /\ MountedAfter(v, auth2, loc)
  /\ \/ ~views[v].mounted
     \/ IF AuthObjectDep(v) THEN objChanged ELSE flagChanged

Starts(v, auth2, loc, objChanged, flagChanged) ==
  /\ EffectRuns(v, auth2, loc, objChanged, flagChanged)
  /\ FetchGuard(v, auth2)

ViewAfter(v, auth2, loc, objChanged, flagChanged) ==
  IF ~MountedAfter(v, auth2, loc) THEN Unmounted(v)
  ELSE LET base == IF views[v].mounted THEN views[v] ELSE InitView(v)
       IN IF Starts(v, auth2, loc, objChanged, flagChanged)
          THEN OnStart(v, base) ELSE base

NewFetch(v) == [view |-> v, stage |-> "token"]

\* the fetches the effects of one render start, in the order of the effects
StartedBy(S) ==
  LET order == <<"Protected", "UserProfile", "UsersList", "UsersListV1",
                 "AwsDashboard">>
      pick[i \in 0..5] ==
        IF i = 0 THEN <<>>
        ELSE IF order[i] \in S THEN Append(pick[i - 1], NewFetch(order[i]))
        ELSE pick[i - 1]
  IN pick[5]

\* ------------------------------------------------------------ init
\* The page has loaded at the location asked for and has rendered once: the SDK
\* has published no authState yet, the view of an ungated location is mounted
\* and its effect has run.
Init ==
  /\ authState = "Unknown"
  /\ everAuth = FALSE
  /\ usersListVersion \in {"v1", "mui"}
  /\ target \in Locations
  /\ route = RouteAfter("Unknown", target)
  /\ guard = Decision("Unknown", target)
  /\ views = [v \in Views |->
               IF ~MountedAfter(v, "Unknown", target) THEN Unmounted(v)
               ELSE IF FetchGuard(v, "Unknown") THEN OnStart(v, InitView(v))
               ELSE InitView(v)]
  /\ fetches = StartedBy({v \in Views : /\ MountedAfter(v, "Unknown", target)
                                        /\ FetchGuard(v, "Unknown")})
  /\ editors = [u \in Users |-> NoEditor]
  /\ puts = <<>>
  /\ background = FALSE
  /\ ev = NoEvent
  /\ menu = InitMenu
  /\ server = <<>>
  /\ card = NoCard

\* The instance of an unmounted view is gone: what its handlers still write is
\* dropped.  All that is left of them is the requests they have not sent yet:
\* the request of a fetch that waits for its token, the PUT of a role update
\* and the fetchUsers its callback starts.
Remaining(fs, vw2) == SelectSeq(fs, LAMBDA f : vw2[f.view].mounted)

LeftBehind(vw2) ==
  \/ \E i \in 1..Len(fetches) :
       ~vw2[fetches[i].view].mounted /\ fetches[i].stage = "token"
  \/ ~vw2["UsersList"].mounted /\ Len(puts) > 0

\* One render: the guard decides, <Navigate> replaces the location, views are
\* mounted and unmounted, effects run and start their fetches.
Rerender(auth2, loc, objChanged, flagChanged, guardElse) ==
  LET S == {v \in Views :
              Starts(v, auth2, loc, objChanged, flagChanged)}
      vw2 == [v \in Views |->
                ViewAfter(v, auth2, loc, objChanged, flagChanged)]
  IN /\ Len(fetches) + Cardinality(S) <= MaxFetch
     /\ authState' = auth2
     /\ everAuth' = (everAuth \/ auth2 = "Auth")
     /\ route' = RouteAfter(auth2, loc)
     /\ guard' = IF loc \in Gated THEN Decision(auth2, loc) ELSE guardElse
     /\ views' = vw2
     /\ fetches' = Remaining(fetches, vw2) \o StartedBy(S)
     /\ background' = (background \/ LeftBehind(vw2))
     /\ editors' = EditorsAfter(editors, vw2, auth2)
     /\ puts' = PutsAfter(puts, vw2, auth2)

\* ------------------------------------------------------------ session
\* <Security>: the SDK publishes the first authState.  On the callback route
\* a successful login ends in restoreOriginalUri.
SdkResolve(a, originalUri) ==
  /\ authState = "Unknown"
  /\ LET restore == route = "/login/callback" /\ a = "Auth"
         loc == IF restore
                THEN (IF originalUri = "none" THEN "/" ELSE originalUri)
                ELSE route
     IN /\ target' = IF restore THEN loc ELSE target
        /\ Rerender(a, loc, TRUE, TRUE,
                    IF restore THEN "none" ELSE guard)
  /\ ev' = Event("render", "none", FALSE)
  /\ UNCHANGED usersListVersion

\* a sign-out that puts the session back to pending
SignOut_ToUnknown ==
  /\ authState = "Auth"
  /\ Rerender("Unknown", route, TRUE, TRUE, guard)
  /\ ev' = Event("render", "none", FALSE)
  /\ UNCHANGED <<usersListVersion, target>>

\* Navigation.logout / UserMenu.logout: oktaAuth.signOut
SignOut ==
  /\ authState = "Auth"
  /\ Rerender("Unauth", route, TRUE, TRUE, guard)
  /\ ev' = Event("render", "none", FALSE)
  /\ UNCHANGED <<usersListVersion, target>>

\* tokenManager autoRenew: a new authState object, still authenticated
TokenRenew ==
  /\ authState = "Auth"
  /\ Rerender("Auth", route, TRUE, FALSE, guard)
  /\ ev' = Event("render", "none", FALSE)
  /\ UNCHANGED <<usersListVersion, target>>

\* <Link to=...>
Navigate(r) ==
  /\ target' = r
  /\ Rerender(authState, r, FALSE, FALSE, "none")
  /\ ev' = Event("render", "none", FALSE)
  /\ UNCHANGED usersListVersion

\* ------------------------------------------------------------ fetches
\* the fetches of the view of fetch i that were started before it
Older(i) == {j \in 1..(i - 1) : fetches[j].view = fetches[i].view}

\* Fetch i is stale: the step before this one was the settling of a fetch of
\* the same view that was started after it (the last event holds how many
\* older fetches that one left behind; they are the first of the view's).
Stale(i) ==
  /\ ev.type \in {"fetchOk", "fetchFailed"}
  /\ ev.view = fetches[i].view
  /\ Cardinality(Older(i)) < ev.older

Settle_DropStale(i, s2) ==
  LET vw2 == IF Stale(i) THEN views
             ELSE [views EXCEPT ![fetches[i].view] = s2]
  IN /\ views' = vw2
     /\ fetches' = RemoveAt(fetches, i)
     /\ editors' = EditorsAfter(editors, vw2, authState)
     /\ puts' = PutsAfter(puts, vw2, authState)

\* a catch block that starts the call again
Settle_Retry(i, s2) ==
  LET vw2 == [views EXCEPT ![fetches[i].view] = s2]
  IN /\ views' = vw2
     /\ fetches' = IF s2.error # Null
                   THEN Append(RemoveAt(fetches, i), NewFetch(fetches[i].view))
                   ELSE RemoveAt(fetches, i)
     /\ editors' = EditorsAfter(editors, vw2, authState)
     /\ puts' = PutsAfter(puts, vw2, authState)

\* the writes of the settled fetch i: nothing cancels a fetch or tells an
\* older one from a newer one, every one of them writes when it settles
Settle(i, s2) ==
  LET vw2 == [views EXCEPT ![fetches[i].view] = s2]
  IN /\ views' = vw2
     /\ fetches' = RemoveAt(fetches, i)
     /\ editors' = EditorsAfter(editors, vw2, authState)
     /\ puts' = PutsAfter(puts, vw2, authState)

\* what the event of a settled fetch records of it
Settled(e, i) ==
  [e EXCEPT !.older = Cardinality(Older(i)),
            !.stale = Stale(i),
            !.changed = (views'[fetches[i].view] # views[fetches[i].view])]

\* the token a view would have kept from an earlier call
AuthorizationHeader_Cached(accessToken) == <<"Bearer", "t1">>

\* 'Authorization': `Bearer ${accessToken}`
AuthorizationHeader(accessToken) == <<"Bearer", accessToken>>

\* const accessToken = await oktaAuth.getAccessToken();
\* fetch(url, {headers: {'Authorization': `Bearer ${accessToken}`}})
GetAccessTokenReturns(i, t) ==
  /\ i \in 1..Len(fetches) /\ fetches[i].stage = "token"
  /\ fetches' = [fetches EXCEPT ![i].stage = "net"]
  /\ ev' = [Event("token", fetches[i].view, FALSE)
              EXCEPT !.token = t, !.sent = TRUE,
                     !.header = AuthorizationHeader(t)]
  /\ UNCHANGED <<authState, everAuth, usersListVersion, target, route, guard,
                 views, editors, puts, background>>

\* a catch block that ends the session when no token can be had
GetAccessTokenThrows_SignsOut(i) ==
  /\ i \in 1..Len(fetches) /\ fetches[i].stage = "token"
  /\ Settle(i, OnFailure(fetches[i].view, views[fetches[i].view],
                         TokenErrorMessage))
  /\ ev' = Settled([Event("fetchFailed", fetches[i].view, FALSE)
                       EXCEPT !.token = "thrown", !.msg = TokenErrorMessage], i)
  /\ authState' = "Unauth"
  /\ UNCHANGED <<everAuth, usersListVersion, target, route, guard,
                 background>>

GetAccessTokenThrows(i) ==
  /\ i \in 1..Len(fetches) /\ fetches[i].stage = "token"
  /\ Settle(i, OnFailure(fetches[i].view, views[fetches[i].view],
                         TokenErrorMessage))
  /\ ev' = Settled([Event("fetchFailed", fetches[i].view, FALSE)
                       EXCEPT !.token = "thrown", !.msg = TokenErrorMessage], i)
  /\ UNCHANGED <<authState, everAuth, usersListVersion, target, route, guard,
                 background>>

\* a handler of an unmounted view goes on: it sends a request
BackgroundRequest(t, more) ==
  /\ background
  /\ background' = more
  /\ ev' = [Event("token", "unmounted", TRUE)
              EXCEPT !.token = t, !.sent = TRUE,
                     !.header = AuthorizationHeader(t)]
  /\ UNCHANGED <<authState, everAuth, usersListVersion, target, route, guard,
                 views, fetches, editors, puts>>

\* the handlers of unmounted views have ended
BackgroundDone ==
  /\ background
  /\ background' = FALSE
  /\ ev' = Event("backgroundDone", "unmounted", TRUE)
  /\ UNCHANGED <<authState, everAuth, usersListVersion, target, route, guard,
                 views, fetches, editors, puts>>

\* response.ok: const data = await response.json(); setX(data)
FetchOk(i, d) ==
  /\ i \in 1..Len(fetches) /\ fetches[i].stage = "net"
  /\ Settle(i, OnSuccess(fetches[i].view, views[fetches[i].view], d))
  /\ ev' = Settled([Event("fetchOk", fetches[i].view, FALSE)
                       EXCEPT !.data = d], i)
  /\ UNCHANGED <<authState, everAuth, usersListVersion, target, route, guard,
                 background>>

\* !response.ok: throw new Error(...)
FetchHttpError(i, status, body) ==
  /\ i \in 1..Len(fetches) /\ fetches[i].stage = "net"
  /\ LET m == HttpMessage(fetches[i].view, status, body)
     IN /\ Settle(i, OnFailure(fetches[i].view, views[fetches[i].view], m))
        /\ ev' = Settled([Event("fetchFailed", fetches[i].view, FALSE)
                             EXCEPT !.msg = m, !.status = status,
                                    !.body = body], i)
  /\ UNCHANGED <<authState, everAuth, usersListVersion, target, route, guard,
                 background>>

\* a catch block that sends the user back to the start page
FetchTransportError_Navigates(i) ==
  /\ i \in 1..Len(fetches) /\ fetches[i].stage = "net"
  /\ Settle(i, OnFailure(fetches[i].view, views[fetches[i].view],
                         TransportErrorMessage))
  /\ ev' = Settled([Event("fetchFailed", fetches[i].view, FALSE)
                       EXCEPT !.msg = TransportErrorMessage], i)
  /\ route' = "/"
  /\ UNCHANGED <<authState, everAuth, usersListVersion, target, guard,
                 background>>

\* fetch rejects
FetchTransportError(i) ==
  /\ i \in 1..Len(fetches) /\ fetches[i].stage = "net"
  /\ Settle(i, OnFailure(fetches[i].view, views[fetches[i].view],
                         TransportErrorMessage))
  /\ ev' = Settled([Event("fetchFailed", fetches[i].view, FALSE)
                       EXCEPT !.msg = TransportErrorMessage], i)
  /\ UNCHANGED <<authState, everAuth, usersListVersion, target, route, guard,
                 background>>

\* ------------------------------------------------------------ role editor
NewPut(u, r, prev, first) ==
  [user |-> u, role |-> r, prev |-> prev, first |-> first, stage |-> "token",
   orphan |-> FALSE]

\* if (!authState?.isAuthenticated) return;
UpdateGuard(auth) == auth = "Auth"

\* handleRoleChange up to the first await of updateRole
handleRoleChange(e, newRole, auth) ==
  LET e1 == [e EXCEPT !.selectedRole = newRole]
  IN IF UpdateGuard(auth) THEN updateRole_start(e1) ELSE e1

\* if (onRolesUpdated) { onRolesUpdated(); } is reached on the success path only
CallbackCalls_Twice(outcome) == IF outcome = "ok" THEN 2 ELSE 0

CallbackCalls(outcome) == IF outcome = "ok" THEN 1 ELSE 0

\* <select onChange={handleRoleChange} disabled={isLoading}>: the user picks
\* another role in the row of user u
Select(u, newRole) ==
  /\ RowShown(views, authState, u)
  /\ ~editors[u].isLoading
  /\ newRole \in availableRoles \ {editors[u].selectedRole}
  /\ Len(puts) < MaxPut
  /\ editors' = [editors EXCEPT ![u] = handleRoleChange(@, newRole, authState)]
  /\ puts' = IF UpdateGuard(authState)
             THEN Append(puts, NewPut(u, newRole, editors[u].selectedRole,
                                      views["UsersList"].data[u]))
             ELSE puts
  /\ ev' = [Event("select", "UserRoles", FALSE)
              EXCEPT !.user = u, !.role = newRole,
                     !.prev = editors[u].selectedRole]
  /\ UNCHANGED <<authState, everAuth, usersListVersion, target, route, guard,
                 views, fetches, background>>

\* const accessToken = await oktaAuth.getAccessToken(); fetch(url, {method: 'PUT'})
PutGetAccessTokenReturns(i, t) ==
  /\ i \in 1..Len(puts) /\ puts[i].stage = "token"
  /\ puts' = PutsAfter([puts EXCEPT ![i].stage = "net"], views, authState)
  /\ ev' = [Event("token", "UserRoles", puts[i].orphan)
              EXCEPT !.user = puts[i].user, !.token = t, !.sent = TRUE,
                     !.header = AuthorizationHeader(t)]
  /\ UNCHANGED <<authState, everAuth, usersListVersion, target, route, guard,
                 views, fetches, editors, background>>

\* The update i settles.  On success onRolesUpdated, which is fetchUsers of the
\* UsersList render that passed it (authenticated, or the row would not be
\* there), runs up to its first await.  Then catch and finally write.
PutSettle(i, outcome, m) ==
  LET p == puts[i]
      calls == CallbackCalls(outcome)
      ed1 == IF p.orphan THEN editors
             ELSE [editors EXCEPT ![p.user] =
                     IF outcome = "ok" THEN updateRole_ok(@)
                     ELSE updateRole_catch(@, m, p.first)]
      vw2 == IF calls > 0
             THEN [views EXCEPT !["UsersList"] = fetchUsers_start(@)]
             ELSE views
  IN /\ Len(fetches) + calls <= MaxFetch
     /\ views' = vw2
     /\ fetches' = fetches \o [k \in 1..calls |-> NewFetch("UsersList")]
     /\ editors' = EditorsAfter(ed1, vw2, authState)
     /\ puts' = PutsAfter(RemoveAt(puts, i), vw2, authState)
     /\ ev' = [Event(IF outcome = "ok" THEN "putOk" ELSE "putFailed",
                     "UserRoles", p.orphan)
                 EXCEPT !.user = p.user, !.role = p.role, !.prev = p.prev,
                        !.msg = m, !.callbacks = calls,
                        !.token = IF outcome = "thrown" THEN "thrown" ELSE "-",
                        !.editor = IF p.orphan THEN NoEditor ELSE ed1[p.user]]
     /\ UNCHANGED <<authState, everAuth, usersListVersion, target, route, guard,
                    background>>

PutGetAccessTokenThrows(i) ==
  /\ i \in 1..Len(puts) /\ puts[i].stage = "token"
  /\ PutSettle(i, "thrown", TokenErrorMessage)

\* const result = await response.json(); onRolesUpdated()
PutOk(i) ==
  /\ i \in 1..Len(puts) /\ puts[i].stage = "net"
  /\ PutSettle(i, "ok", Null)

\* const errorText = await response.text(); throw new Error(...)
PutHttpError(i, status, body) ==
  /\ i \in 1..Len(puts) /\ puts[i].stage = "net"
  /\ PutSettle(i, "http", updateRole_message(status, body))

PutTransportError(i) ==
  /\ i \in 1..Len(puts) /\ puts[i].stage = "net"
  /\ PutSettle(i, "transport", TransportErrorMessage)

Next ==
  \/ \E a \in {"Auth", "Unauth"}, o \in {"/protected", "none"} : SdkResolve(a, o)
       /\ UNCHANGED <<menu, server, card>>
  \/ SignOut
       /\ UNCHANGED <<menu, server, card>>
  \/ TokenRenew
       /\ UNCHANGED <<menu, server, card>>
  \/ \E r \in Locations \ {"/login/callback"} : Navigate(r)
       /\ UNCHANGED <<menu, server, card>>
  \/ \E i \in 1..Len(fetches), t \in TokenResults : GetAccessTokenReturns(i, t)
       /\ UNCHANGED <<menu, server, card>>
  \/ \E i \in 1..Len(fetches) : GetAccessTokenThrows(i)
       /\ UNCHANGED <<menu, server, card>>
  \/ \E t \in TokenResults, more \in BOOLEAN : BackgroundRequest(t, more)
       /\ UNCHANGED <<menu, server, card>>
  \/ BackgroundDone
       /\ UNCHANGED <<menu, server, card>>
  \/ \E i \in 1..Len(fetches) :
       \E d \in Payloads(fetches[i].view) : FetchOk(i, d)
       /\ UNCHANGED <<menu, server, card>>
  \/ \E i \in 1..Len(fetches), s \in Statuses, b \in Bodies :
       FetchHttpError(i, s, b)
       /\ UNCHANGED <<menu, server, card>>
  \/ \E i \in 1..Len(fetches) : FetchTransportError(i)
       /\ UNCHANGED <<menu, server, card>>
  \/ \E u \in Users, r \in availableRoles : Select(u, r)
       /\ UNCHANGED <<menu, server, card>>
  \/ \E i \in 1..Len(puts), t \in TokenResults : PutGetAccessTokenReturns(i, t)
       /\ UNCHANGED <<menu, server, card>>
  \/ \E i \in 1..Len(puts) : PutGetAccessTokenThrows(i)
       /\ UNCHANGED <<menu, server, card>>
  \/ \E i \in 1..Len(puts) : PutOk(i)
       /\ UNCHANGED <<menu, server, card>>
  \/ \E i \in 1..Len(puts), st \in PutStatuses, b \in Bodies :
       PutHttpError(i, st, b)
       /\ UNCHANGED <<menu, server, card>>
  \/ \E i \in 1..Len(puts) : PutTransportError(i)
       /\ UNCHANGED <<menu, server, card>>

Spec == Init /\ [][Next]_vars

\* ------------------------------------------------------------ backend
\* server.js.  A request is taken on its own: no step changes the page.
MaxReq == 2

page == <<authState, everAuth, usersListVersion, target, route, guard, views,
          fetches, editors, puts, background, ev, card>>

\* req.headers['authorization']: undefined (Null), or the fields that
\* split(' ') makes of the header's value
AuthHeaders ==
  {Null, <<"">>, <<"Bearer">>, <<"Bearer", "">>, <<"Bearer", "good">>,
   <<"Bearer", "bad">>, <<"Basic", "good">>, <<"good">>,
   <<"Bearer", "", "good">>, <<"Bearer", "good", "more">>}

\* undefined and '' are falsy
Falsy == ""

\* a middleware that takes a token only from a Bearer header
Token_BearerOnly(authHeader) ==
  IF authHeader = Null \/ authHeader = <<"">> THEN Falsy
  ELSE IF Len(authHeader) < 2 \/ authHeader[1] # "Bearer" THEN Falsy
  ELSE authHeader[2]

\* const token = authHeader && authHeader.split(' ')[1];
Token(authHeader) ==
  IF authHeader = Null \/ authHeader = <<"">> THEN Falsy
  ELSE IF Len(authHeader) < 2 THEN Falsy
  ELSE authHeader[2]

\* tokens the verifier can verify, and the claims it decodes
ValidTokens == {"good"}
Claims(token) == <<"claims of", token>>

\* res.json({message: 'This is a protected route', user: req.user})
ProtectedHandler(r) ==
  [r EXCEPT !.handled = TRUE, !.responses = @ + 1, !.status = "200",
            !.message = "This is a protected route", !.sent = r.user]

\* a request as authenticateToken takes it up
Received(h) ==
  [header |-> h, stage |-> "verify", verdict |-> "-", user |-> Null,
   nexts |-> 0, handled |-> FALSE, responses |-> 0, status |-> "-",
   message |-> "-", sent |-> Null]

\* a 401 branch without its return: it answers and goes on to next()
NoToken_AndNext(r) ==
  [r EXCEPT !.stage = "done", !.responses = @ + 1, !.status = "401",
            !.message = "No token provided", !.nexts = @ + 1,
            !.handled = TRUE]

\* if (!token) return res.status(401).json({message: 'No token provided'});
NoToken(r) ==
  [r EXCEPT !.stage = "done", !.responses = @ + 1, !.status = "401",
            !.message = "No token provided"]

\* GET /api/protected arrives: authenticateToken runs up to its await
Request(h) ==
  /\ Len(server) < MaxReq
  /\ server' = Append(server, IF Token(h) = Falsy THEN NoToken(Received(h))
                              ELSE Received(h))
  /\ UNCHANGED <<page, menu>>

\* a catch block that lets the request through
VerifyRejects_Next(i) ==
  /\ i \in 1..Len(server) /\ server[i].stage = "verify"
  /\ server' = [server EXCEPT ![i] =
       ProtectedHandler([@ EXCEPT !.stage = "done", !.verdict = "rejected",
                                  !.nexts = @ + 1])]
  /\ UNCHANGED <<page, menu>>

\* const jwt = await oktaJwtVerifier.verifyAccessToken(token);
\* req.user = jwt.claims; next();
VerifyResolves(i) ==
  /\ i \in 1..Len(server) /\ server[i].stage = "verify"
  /\ Token(server[i].header) \in ValidTokens
  /\ server' = [server EXCEPT ![i] =
       ProtectedHandler([@ EXCEPT !.stage = "done", !.verdict = "resolved",
                                  !.user = Claims(Token(server[i].header)),
                                  !.nexts = @ + 1])]
  /\ UNCHANGED <<page, menu>>

\* catch (err) { return res.status(403).json({message: 'Invalid token'}); }
\* the verifier rejects a token it cannot verify: a bad one, an expired one,
\* any one when it cannot get the issuer's keys
VerifyRejects(i) ==
  /\ i \in 1..Len(server) /\ server[i].stage = "verify"
  /\ server' = [server EXCEPT ![i] =
       [@ EXCEPT !.stage = "done", !.verdict = "rejected",
                 !.responses = @ + 1, !.status = "403",
                 !.message = "Invalid token"]]
  /\ UNCHANGED <<page, menu>>

InitServer ==
  /\ Init
  /\ usersListVersion = "mui"
  /\ target = "/"

NextServer ==
  \/ \E h \in AuthHeaders : Request(h)
  \/ \E i \in 1..Len(server) : VerifyResolves(i)
  \/ \E i \in 1..Len(server) : VerifyRejects(i)

SpecServer == InitServer /\ [][NextServer]_vars

\* ------------------------------------------------------------ UserMenu
\* UserMenu.js, under <Security>.  The component is taken on its own, on a
\* page that stays where it is.
MaxGetUser == 2
MaxSignOut == 1

hosted == <<usersListVersion, target, route, guard, views, fetches, editors,
            puts, background, server, card>>

\* what oktaAuth.getUser() resolves with
UserInfos == {<<"Ada Lovelace", "ada@example.com">>,
              <<"Alan Turing", "alan@example.com">>}
\* what oktaAuth.getUser() and oktaAuth.signOut() reject with
GetUserError == <<"getUser failed">>
SignOutError == <<"signOut failed">>

\* a render that looks at userInfo only
MenuRender_NoSessionCheck(m, auth) == m.userInfo

\* if (!authState?.isAuthenticated || !userInfo) return null;
\* otherwise the avatar button and the menu with userInfo.name, userInfo.email
MenuRender(m, auth) ==
  IF auth # "Auth" \/ m.userInfo = Null THEN Null ELSE m.userInfo

\* useEffect(..., [authState, oktaAuth]): fetchUserInfo calls getUser when
\* the session is authenticated
fetchUserInfo(m, auth) ==
  IF auth = "Auth" THEN [m EXCEPT !.getUsers = @ + 1] ELSE m

\* a new authState: the first one, a renewal, the end of the session
MenuAuthState(a) ==
  /\ \/ authState = "Unknown" /\ a \in {"Auth", "Unauth"}
     \/ authState = "Auth" /\ a \in {"Auth", "Unauth"}
  /\ a = "Auth" => menu.getUsers < MaxGetUser
  /\ authState' = a
  /\ everAuth' = (everAuth \/ a = "Auth")
  /\ menu' = fetchUserInfo(menu, a)
  /\ ev' = Event("render", "UserMenu", FALSE)
  /\ UNCHANGED hosted

\* const info = await oktaAuth.getUser(); setUserInfo(info);
GetUserResolves(info) ==
  /\ menu.getUsers > 0
  /\ menu' = [menu EXCEPT !.getUsers = @ - 1, !.userInfo = info]
  /\ ev' = [Event("getUserOk", "UserMenu", FALSE) EXCEPT !.data = info]
  /\ UNCHANGED <<authState, everAuth, hosted>>

\* catch (error) { console.error('Error fetching user info:', error); }
GetUserRejects ==
  /\ menu.getUsers > 0
  /\ menu' = [menu EXCEPT !.getUsers = @ - 1,
                          !.console = @ \cup {"Error fetching user info:"}]
  /\ ev' = [Event("getUserFailed", "UserMenu", FALSE)
              EXCEPT !.msg = GetUserError]
  /\ UNCHANGED <<authState, everAuth, hosted>>

\* the avatar button: setAnchorEl(event.currentTarget)
handleClick ==
  /\ MenuRender(menu, authState) # Null
  /\ menu' = [menu EXCEPT !.anchorEl = TRUE]
  /\ ev' = Event("click", "UserMenu", FALSE)
  /\ UNCHANGED <<authState, everAuth, hosted>>

\* <Menu onClose={handleClose} onClick={handleClose}>: setAnchorEl(null)
handleClose ==
  /\ MenuRender(menu, authState) # Null
  /\ menu.anchorEl
  /\ menu' = [menu EXCEPT !.anchorEl = FALSE]
  /\ ev' = Event("close", "UserMenu", FALSE)
  /\ UNCHANGED <<authState, everAuth, hosted>>

\* <MenuItem onClick={logout}>: oktaAuth.signOut is called, then the click
\* reaches the menu's onClick
logout ==
  /\ MenuRender(menu, authState) # Null
  /\ menu.anchorEl
  /\ menu.signOuts < MaxSignOut
  /\ menu' = [menu EXCEPT !.signOuts = @ + 1, !.anchorEl = FALSE]
  /\ ev' = Event("logout", "UserMenu", FALSE)
  /\ UNCHANGED <<authState, everAuth, hosted>>

\* await oktaAuth.signOut(...) resolves: the session has ended
SignOutResolves ==
  /\ menu.signOuts > 0
  /\ menu' = [menu EXCEPT !.signOuts = @ - 1]
  /\ authState' = IF authState = "Auth" THEN "Unauth" ELSE authState
  /\ ev' = Event("signOutOk", "UserMenu", FALSE)
  /\ UNCHANGED <<everAuth, hosted>>

\* catch (error) { console.error('Logout error:', error); }
SignOutRejects ==
  /\ menu.signOuts > 0
  /\ menu' = [menu EXCEPT !.signOuts = @ - 1,
                          !.console = @ \cup {"Logout error:"}]
  /\ ev' = [Event("signOutFailed", "UserMenu", FALSE)
              EXCEPT !.msg = SignOutError]
  /\ UNCHANGED <<authState, everAuth, hosted>>

InitUserMenu ==
  /\ Init
  /\ usersListVersion = "mui"
  /\ target = "/"

NextUserMenu ==
  \/ \E a \in {"Auth", "Unauth"} : MenuAuthState(a)
  \/ \E info \in UserInfos : GetUserResolves(info)
  \/ GetUserRejects
  \/ handleClick
  \/ handleClose
  \/ logout
  \/ SignOutResolves
  \/ SignOutRejects

SpecUserMenu == InitUserMenu /\ [][NextUserMenu]_vars

\* ------------------------------------------------------------ AccountCostCard
\* AccountCostCard.js.  JavaScript numbers are binary floating-point numbers:
\* here with a significand of Precision bits instead of 53, rounded to
\* nearest, ties to even, as IEEE 754 division and multiplication are.
\* A number is m * 2^e with m = 0 or 2^(Precision-1) <= m < 2^Precision.
Precision == 5
MaxExp == 0

Zero == [m |-> 0, e |-> 0]

\* number of bits of n
BitLen(n) == IF n = 0 THEN 0 ELSE CHOOSE k \in 1..30 : 2^(k - 1) <= n /\ n < 2^k

\* the number nearest to n * 2^e (sticky: n was cut off a longer digit string)
RoundTo(n, sticky, e) ==
  IF n = 0 THEN Zero
  ELSE LET d == BitLen(n) - Precision
       IN IF d <= 0 THEN [m |-> n * 2^(0 - d), e |-> e + d]
          ELSE LET low == n % 2^d
                   half == 2^(d - 1)
                   m0 == n \div 2^d
                   up == \/ low > half
                         \/ low = half /\ sticky
                         \/ low = half /\ ~sticky /\ m0 % 2 = 1
                   m1 == IF up THEN m0 + 1 ELSE m0
               IN IF m1 = 2^Precision
                  THEN [m |-> 2^(Precision - 1), e |-> e + d + 1]
                  ELSE [m |-> m1, e |-> e + d]

Number(n) == RoundTo(n, FALSE, 0)

\* x / y, y # 0
Div(x, y) ==
  LET n == x.m * 2^(Precision + 1)
  IN RoundTo(n \div y.m, n % y.m # 0, x.e - y.e - (Precision + 1))

\* x * y
Mul(x, y) == RoundTo(x.m * y.m, FALSE, x.e + y.e)

\* x > y
Gt(x, y) ==
  LET lo == IF x.e < y.e THEN x.e ELSE y.e
  IN x.m * 2^(x.e - lo) > y.m * 2^(y.e - lo)

\* a Math.min that hands back its first argument
MathMin_First(x, y) == x

\* Math.min(x, y)
MathMin(x, y) == IF Gt(x, y) THEN y ELSE x

\* const percentageOfTotal = (account.cost / account.budgetLimit) * 100;
percentageOfTotal(cost, budgetLimit) ==
  Mul(Div(cost, budgetLimit), Number(100))

\* const isOverBudget = percentageOfTotal > 100;
isOverBudget(pct) == Gt(pct, Number(100))

\* '& .MuiLinearProgress-bar': backgroundColor
BarColor(pct) ==
  IF isOverBudget(pct) THEN "error"
  ELSE IF Gt(pct, Number(80)) THEN "warning"
  ELSE "success"

\* <Typography color={isOverBudget ? 'error.main' : 'textPrimary'}>
CostColor(pct) == IF isOverBudget(pct) THEN "error.main" ELSE "textPrimary"

\* the numbers a cost or a budget limit can be: cost >= 0, budgetLimit > 0
Positive ==
  {[m |-> m, e |-> e] : m \in 2^(Precision - 1)..(2^Precision - 1),
                        e \in 0..MaxExp}
Costs == Positive \cup {Zero}
BudgetLimits == Positive

\* awsData.accounts.map(account => <AccountCostCard account={account} />):
\* the dashboard hands an account to a card (one card is followed)
AccountProps(cost, budgetLimit) ==
  /\ card = NoCard
  /\ card' = [NoCard EXCEPT !.cost = cost, !.budgetLimit = budgetLimit]
  /\ UNCHANGED <<authState, everAuth, usersListVersion, target, route,
                 guard, views, fetches, editors, puts, background, ev,
                 menu, server>>

\* const AccountCostCard = ({ account }) => ...: the card renders
AccountCostCard ==
  LET cost == card.cost
      budgetLimit == card.budgetLimit
      pct == percentageOfTotal(cost, budgetLimit)
  IN /\ card # NoCard
     /\ card.barColor = "-"
     /\ card' = [cost |-> cost, budgetLimit |-> budgetLimit,
                 percentageOfTotal |-> pct,
                 isOverBudget |-> isOverBudget(pct),
                 value |-> MathMin(pct, Number(100)),
                 barColor |-> BarColor(pct),
                 costColor |-> CostColor(pct)]
     /\ UNCHANGED <<authState, everAuth, usersListVersion, target, route,
                    guard, views, fetches, editors, puts, background, ev,
                    menu, server>>

InitCard ==
  /\ Init
  /\ usersListVersion = "mui"
  /\ target = AwsLocation

NextCard ==
  \/ \E c \in Costs, b \in BudgetLimits : AccountProps(c, b)
  \/ AccountCostCard

SpecCard == InitCard /\ [][NextCard]_vars

\* ------------------------------------------------------------ properties
GatedViews == {"Protected", "UserProfile", "UsersList", "UsersListV1"}

Outstanding(v) == \E i \in 1..Len(fetches) : fetches[i].view = v

Shown(v) == Render(v, views[v], authState)

\* C1: while the session is Unauthenticated no gated route is the current
\* location and no view wrapped in SecureRoute is mounted; a gated location
\* that was asked for has been answered by the guard's redirect to "/".
C1_UnauthRedirects ==
  authState = "Unauth" =>
    /\ route \notin Gated
    /\ \A v \in GatedViews : ~views[v].mounted
    /\ target \in Gated => (guard = "redirect" /\ route = "/")

C1_Witness ==
  /\ authState = "Unauth"
  /\ target = "/profile"
  /\ guard = "redirect"
  /\ route = "/"

\* C2: while the session is Authenticated a gated location that was asked for
\* is the current location (no redirect), the guard's decision is to render its
\* children, and the view of that route, and no other, is mounted.
C2_AuthRendersChildren ==
  (authState = "Auth" /\ target \in Gated) =>
    /\ route = target
    /\ guard = "children"
    /\ \A v \in Views : views[v].mounted <=> v = ViewOf(target)

C2_Witness ==
  /\ authState = "Auth"
  /\ route = "/users"
  /\ guard = "children"
  /\ views["UsersList"].mounted

\* C3: while the session is Unknown the location that was asked for stays the
\* current one, a gated location shows the guard's placeholder and no wrapped
\* view is mounted; the guard's decision is a redirect only when the session is
\* Unauthenticated.
C3_UnknownPlaceholder ==
  /\ authState = "Unknown" =>
       /\ route = target
       /\ target \in Gated => guard = "placeholder"
       /\ \A v \in GatedViews : ~views[v].mounted
  /\ guard = "redirect" => authState = "Unauth"

C3_Witness ==
  /\ authState = "Unknown"
  /\ ev.type = "render"
  /\ target = "/users"
  /\ route = "/users"
  /\ guard = "placeholder"

\* C4: a view with a fetch of its own outstanding shows exactly the loading
\* state.
C4_LoadingWhileOutstanding ==
  \A v \in Views : Outstanding(v) => Shown(v) = {"loading"}

\* C5: right after a fetch of a view has failed, the view's error is set and
\* its data is empty.
C5_FailureClearsData ==
  ev.type = "fetchFailed" =>
    /\ views[ev.view].error # Null
    /\ views[ev.view].data = EmptyData(ev.view)

\* C6: right after a fetch of a view has succeeded, the view's error is absent
\* and its data is the payload of that response.
C6_SuccessReplaces ==
  ev.type = "fetchOk" =>
    /\ views[ev.view].error = Null
    /\ views[ev.view].data = ev.data

\* C7: a call whose getAccessToken gave no token (undefined, or it threw) has
\* failed with an error and has sent no request.
C7_NoTokenNoRequest ==
  ev.token \in {"undefined", "thrown"} =>
    /\ ~ev.sent
    /\ ev.type \in {"fetchFailed", "putFailed"}
    /\ ev.msg # Null

\* C8: as long as the session has not been Authenticated since the page loaded,
\* no request is sent and no fetch or role update is started; once the session
\* is Unauthenticated a gated location that was asked for (/users among them)
\* has been redirected to "/".
C8_NeverAuthNoRequest ==
  ~everAuth =>
    /\ ~ev.sent
    /\ fetches = <<>>
    /\ puts = <<>>
    /\ ~background
    /\ (authState = "Unauth" /\ target \in Gated) =>
         (route = "/" /\ guard = "redirect")

C8_Witness ==
  /\ ~everAuth
  /\ authState = "Unauth"
  /\ target = "/users"
  /\ route = "/"
  /\ guard = "redirect"

\* C9: right after the PUT of a role change to R has succeeded, the editor that
\* made it is left with R selected, no error and not updating, and
\* onRolesUpdated has been called exactly once.
C9_SuccessKeepsSelection ==
  ev.type = "putOk" =>
    /\ ev.callbacks = 1
    /\ ~ev.orphan =>
         /\ ev.editor.selectedRole = ev.role
         /\ ev.editor.error = Null
         /\ ~ev.editor.isLoading

C9_Witness ==
  /\ ev.type = "putOk"
  /\ ~ev.orphan
  /\ ev.role = "ROLE_ADMIN"
  /\ ev.editor.selectedRole = "ROLE_ADMIN"
  /\ ev.callbacks = 1

\* C10: right after the backend has rejected a role change, the editor shows
\* the role that was selected before the change, shows the error with the text
\* of the response body, and onRolesUpdated has not been called.
C10_FailureReverts ==
  (ev.type = "putFailed" /\ ~ev.orphan /\ ev.msg \notin
     {TokenErrorMessage, TransportErrorMessage}) =>
    /\ editors[ev.user].selectedRole = ev.prev
    /\ editors[ev.user].error = ev.msg
    /\ \E b \in Bodies : ev.msg[4] = b
    /\ ev.callbacks = 0

\* C11: a fetch that settles right after a fetch of the same view that was
\* started later (a stale one) writes the view's state all the same: right after a
\* stale success the view's data is the stale payload, right after a stale
\* failure the view's error is the stale failure's message.
C11_StaleResponseWrites ==
  ev.stale =>
    /\ ev.type = "fetchOk" => views[ev.view].data = ev.data
    /\ ev.type = "fetchFailed" => views[ev.view].error = ev.msg

\* the stale fetch was the last one to settle and it changed what the view held
C11_Witness ==
  /\ ev.stale
  /\ ev.changed
  /\ ev.type = "fetchOk"
  /\ ~Outstanding(ev.view)
  /\ views[ev.view].data = ev.data

FetchesOf(v) == {i \in 1..Len(fetches) : fetches[i].view = v}

\* C12: no view has more than one fetch of its own outstanding.
C12_OneOutstandingFetch ==
  \A v \in Views : Cardinality(FetchesOf(v)) <= 1

Sent(v) == {i \in FetchesOf(v) : fetches[i].stage = "net"}

\* C13: a step starts at most one fetch per view, and only a render (mount,
\* auth-state change) or the refresh callback of a successful role update
\* starts one; only a role selection starts a role update, and one at most; a
\* step that sends the request of a call sends that one request; a step in
\* which a call fails starts and sends nothing.
C13_NoRetry ==
  [][/\ \/ fetches' = fetches
        \/ \A v \in {fetches'[i].view : i \in 1..Len(fetches')} :
             /\ Cardinality(FetchesOf(v)') <= Cardinality(FetchesOf(v)) + 1
             /\ Cardinality(FetchesOf(v)') > Cardinality(FetchesOf(v)) =>
                   ev'.type \in {"render", "putOk"}
             /\ Cardinality(Sent(v)') <= Cardinality(Sent(v)) + 1
             /\ Cardinality(Sent(v)') > Cardinality(Sent(v)) =>
                   (ev'.type = "token" /\ ev'.view = v)
     /\ Len(puts') <= Len(puts) + 1
     /\ Len(puts') > Len(puts) => ev'.type = "select"
     /\ ev'.type \in {"fetchFailed", "putFailed"} =>
          /\ Len(fetches') < Len(fetches) \/ Len(puts') < Len(puts)
          /\ Len(fetches') <= Len(fetches)
          /\ Len(puts') <= Len(puts)
          /\ ~ev'.sent]_vars

\* a request has failed and nothing is outstanding after it
C13_Witness ==
  /\ ev.type = "fetchFailed"
  /\ ev.status = "500"
  /\ fetches = <<>>
  /\ puts = <<>>
  /\ ~background

InMsg(m, x) == \E k \in 1..Len(m) : m[k] = x

\* C14: the error a view records for a non-success HTTP response carries the
\* status code of the response and its body.
C14_HttpErrorCarriesStatusAndBody ==
  /\ (ev.type = "fetchFailed" /\ ev.status # "-") =>
       /\ views[ev.view].error = ev.msg
       /\ InMsg(ev.msg, ev.status)
       /\ InMsg(ev.msg, ev.body)
  /\ (ev.type = "putFailed" /\ ev.msg \notin
        {TokenErrorMessage, TransportErrorMessage}) =>
       \E st \in PutStatuses, b \in Bodies :
         InMsg(ev.msg, st) /\ InMsg(ev.msg, b)

\* C16: a render with the session Authenticated in which a view is mounted, or
\* in which the session has just become Authenticated, or which follows a new
\* authState object (same flag, new identity), starts a fetch of every view
\* that is mounted after it.
C16_RefetchOnSessionChange ==
  [][\A v \in Views :
       (/\ ev'.type = "render"
        /\ authState' = "Auth"
        /\ views'[v].mounted
        /\ \/ ~views[v].mounted
           \/ authState # "Auth"
           \/ TokenRenew) =>
         Cardinality(FetchesOf(v)') > Cardinality(FetchesOf(v))]_vars

\* C17: the request a call sends carries Authorization: Bearer <token> with
\* the value getAccessToken returned in that call.
C17_BearerOfSameCall ==
  ev.sent =>
    /\ Len(ev.header) = 2
    /\ ev.header[1] = "Bearer"
    /\ ev.header[2] = ev.token
    /\ ev.token \in TokenResults

C17_Witness ==
  /\ ev.sent
  /\ ev.view = "UserProfile"
  /\ ev.header = <<"Bearer", "t1">>

CallEvents ==
  {"token", "fetchOk", "fetchFailed", "select", "putOk", "putFailed",
   "backgroundDone"}

\* C20: a step of a fetch or of a role update leaves the session as it was;
\* the session changes only in a step of the SDK (the first authState, sign-out).
C20_CallsLeaveSession ==
  [][/\ ev'.type \in CallEvents =>
          (authState' = authState /\ everAuth' = everAuth)
     /\ authState' # authState =>
          (SignOut \/ \E a \in {"Auth", "Unauth"},
                         o \in {"/protected", "none"} : SdkResolve(a, o))]_vars

\* a role update has failed after a fetch has, and the session is still
\* Authenticated
C20_Witness ==
  /\ ev.type = "putFailed"
  /\ authState = "Auth"

\* C18: GET /api/protected runs its handler, and answers with the decoded
\* claims, only for a request whose token the verifier has verified; a request
\* without a token is answered 401 'No token provided', one whose token fails
\* verification 403 'Invalid token', and for neither is the handler invoked.
C18_ProtectedOnlyVerified ==
  \A i \in 1..Len(server) :
    LET r == server[i]
    IN /\ r.handled =>
            /\ r.verdict = "resolved"
            /\ Token(r.header) \in ValidTokens
            /\ r.status = "200"
            /\ r.sent = Claims(Token(r.header))
       /\ r.status = "200" => r.handled
       /\ Token(r.header) = Falsy =>
            /\ r.status = "401" /\ r.message = "No token provided"
            /\ ~r.handled /\ r.sent = Null
       /\ r.verdict = "rejected" =>
            /\ r.status = "403" /\ r.message = "Invalid token"
            /\ ~r.handled /\ r.sent = Null

\* one request was let through, one had no token, in either order of arrival
C18_Witness ==
  /\ Len(server) = 2
  /\ server[1].handled /\ server[1].header = <<"Bearer", "good">>
  /\ server[2].status = "401" /\ server[2].header = <<"Bearer">>

\* C15: when an asynchronous call of a view has failed, the view shows the
\* user a message of the failure: after a failed getUser or signOut of
\* UserMenu the error is in the state of UserMenu and in what it renders.
C15_FailureShown ==
  ev.type \in {"getUserFailed", "signOutFailed"} =>
    /\ ev.msg # Null
    /\ \/ menu.userInfo = ev.msg
       \/ MenuRender(menu, authState) = ev.msg

\* C21: a step in which a fetch or a role update fails leaves the location,
\* the location asked for and the guard's decision as they were; a step that
\* changes the location without a new location having been asked for is the
\* guard's redirect of a gated location to "/" with the session
\* Unauthenticated.
C21_FailureKeepsRoute ==
  [][/\ ev'.type \in {"fetchFailed", "putFailed"} =>
          /\ route' = route
          /\ target' = target
          /\ guard' = guard
     /\ (route' # route /\ target' = target) =>
          /\ authState' = "Unauth"
          /\ route \in Gated
          /\ route' = "/"
          /\ guard' = "redirect"]_vars

\* the fetch of the view at /users has failed and /users is still shown
C21_Witness ==
  /\ ev.type = "fetchFailed"
  /\ route = "/users"
  /\ target = "/users"
  /\ views["UsersList"].error # Null

\* C22: of two evaluations of SecureRoute that follow one another with the
\* session state unchanged the second decides as the first did, whatever else
\* has changed between them (the location, the views, what is outstanding).
C22_GuardIdempotent ==
  [][(/\ guard # "none"
      /\ guard' # "none"
      /\ authState' = authState) => guard' = guard]_vars

\* SecureRoute was evaluated at a gated location whose view started a fetch,
\* and again at /profile after the user went on: it decided for its children
\* both times
C22_Witness ==
  /\ authState = "Auth"
  /\ route = "/profile"
  /\ guard = "children"
  /\ ev.type = "render"
  /\ Cardinality(FetchesOf("Protected")) = 0
  /\ background

\* the updates of the editor of user u that have not settled
PutsOf(u) == {i \in 1..Len(puts) : puts[i].user = u /\ ~puts[i].orphan}

\* C23: an editor that has no update outstanding and shows no error shows
\* as selected the role the backend has sent last for its user.
C23_QuietEditorShowsBackendRole ==
  \A u \in Users :
    (/\ RowShown(views, authState, u)
     /\ PutsOf(u) = {}
     /\ ~editors[u].isLoading
     /\ editors[u].error = Null) =>
      editors[u].selectedRole = InitialRole(views["UsersList"].data[u])

\* C24: an editor has at most one update outstanding; it shows "Updating..."
\* (and its selector is disabled) exactly while it has one; right after an
\* update of it has settled, in success or in failure, it is not updating.
C24_OneUpdatePerEditor ==
  /\ \A u \in Users :
       /\ Cardinality(PutsOf(u)) <= 1
       /\ PutsOf(u) # {} => (RowShown(views, authState, u) /\ editors[u].isLoading)
       /\ PutsOf(u) = {} => ~editors[u].isLoading
  /\ (ev.type \in {"putOk", "putFailed"} /\ ~ev.orphan) =>
       /\ ~ev.editor.isLoading
       /\ PutsOf(ev.user) = {}

\* an update of the editor of user 1 has failed, the editor is still there and
\* its selector is enabled again
C24_Witness ==
  /\ ev.type = "putFailed"
  /\ ~ev.orphan
  /\ ev.user = 1
  /\ RowShown(views, authState, 1)
  /\ ~editors[1].isLoading
  /\ editors[1].error # Null

\* C25: right after a fetch of UsersList (either version) or AwsDashboard has
\* settled, in success or in failure, a failed getAccessToken included, the
\* view's loading flag is off; a view of these that is mounted with the session
\* Authenticated and has no fetch outstanding has its loading flag off, and
\* with no fetch outstanding none of them shows the loading state.
C25_LoadingCleared ==
  /\ (ev.type \in {"fetchOk", "fetchFailed"} /\ HasLoadingFlag(ev.view)) =>
       ~views[ev.view].loading
  /\ \A v \in Views :
       (HasLoadingFlag(v) /\ FetchesOf(v) = {}) =>
         /\ (views[v].mounted /\ authState = "Auth") => ~views[v].loading
         /\ "loading" \notin Shown(v)

\* getAccessToken has thrown in the only fetch of AwsDashboard: the view shows
\* the error and not the loading state
C25_Witness ==
  /\ ev.type = "fetchFailed"
  /\ ev.token = "thrown"
  /\ ev.view = "AwsDashboard"
  /\ FetchesOf("AwsDashboard") = {}
  /\ views["AwsDashboard"].mounted
  /\ ~views["AwsDashboard"].loading
  /\ Shown("AwsDashboard") = {"error"}

\* C26: a request that authenticateToken is done with has had exactly one of
\* three outcomes, once: the 401 response, the 403 response, or next() with
\* req.user set to the claims of the verified token; next() is not called for a
\* request that was answered 401 or 403, req.user is set on no such request, and a
\* request that still waits for the verifier has had no outcome.
C26_ExactlyOneOutcome ==
  \A i \in 1..Len(server) :
    LET r == server[i]
        rejected == r.status \in {"401", "403"}
    IN /\ r.stage = "verify" =>
            /\ r.responses = 0 /\ r.nexts = 0
            /\ r.user = Null /\ r.status = "-"
       /\ r.stage = "done" =>
            /\ r.responses = 1
            /\ r.nexts = IF rejected THEN 0 ELSE 1
            /\ rejected \/ r.nexts = 1
       /\ r.nexts = 1 =>
            /\ r.verdict = "resolved"
            /\ r.user = Claims(Token(r.header))
            /\ r.status = "200"
       /\ rejected => (r.user = Null /\ ~r.handled /\ r.nexts = 0)

\* of two requests with the same header one was passed on with req.user set
\* and one was answered 403
C26_Witness ==
  /\ Len(server) = 2
  /\ server[1].nexts = 1 /\ server[1].user # Null
  /\ server[1].header = <<"Bearer", "good">>
  /\ server[2].status = "403" /\ server[2].header = <<"Bearer", "good">>

\* C27: two requests whose Authorization headers have the same second field,
\* and on which the verifier gave the same verdict, have the same outcome
\* whatever their first fields are; the verifier is asked about every second
\* field that is not empty, whatever the first field is; a request whose
\* header has no second field is answered 401 without the verifier being asked.
C27_OutcomeBySecondField ==
  /\ \A i, j \in 1..Len(server) :
       (/\ server[i].stage = "done" /\ server[j].stage = "done"
        /\ server[i].header # Null /\ server[j].header # Null
        /\ Len(server[i].header) >= 2 /\ Len(server[j].header) >= 2
        /\ server[i].header[2] = server[j].header[2]
        /\ server[i].verdict = server[j].verdict) =>
         /\ server[i].status = server[j].status
         /\ server[i].message = server[j].message
         /\ server[i].sent = server[j].sent
         /\ server[i].handled = server[j].handled
  /\ \A i \in 1..Len(server) :
       IF server[i].header = Null \/ Len(server[i].header) < 2
       THEN server[i].status = "401" /\ server[i].verdict = "-"
       ELSE (server[i].stage = "done" /\ server[i].header[2] # "") =>
              /\ server[i].verdict \in {"resolved", "rejected"}
              /\ server[i].status \in {"200", "403"}

\* the same token under the schemes Basic and Bearer: both were passed on
C27_Witness ==
  /\ Len(server) = 2
  /\ server[1].header = <<"Basic", "good">> /\ server[1].status = "200"
  /\ server[2].header = <<"Bearer", "good">> /\ server[2].status = "200"

Exact(x) == x.m * 2^x.e

====
